---- MODULE Spec2Model ----
(***************************************************************************)
(* Span Gantt chart of the trace analytics plugin: the span parser         *)
(* (parseSpanHitData), the hierarchy builder (hitsToHierarchicalSpans),    *)
(* the timeline layout (createPlotlyData) and the payload effect of        *)
(* SpanDetailPanel that runs them and stores the chart model.              *)
(*                                                                         *)
(* Numbers.  A value in milliseconds is kept as an integer number of       *)
(* millionths of a millisecond, so that x / 1000000 and x / 1000 are       *)
(* exact and rounding to two decimals is observable.  Start times are in   *)
(* nanoseconds, as in the source.                                          *)
(*                                                                         *)
(* Objects.  A HierarchicalSpan is an object shared by reference between   *)
(* spanMap, rootSpans and the children arrays.  The model keeps the        *)
(* objects in spanMap (keyed by span id) and represents every reference    *)
(* to a node by its key.                                                   *)
(***************************************************************************)
EXTENDS Integers, Sequences, FiniteSets, TLC

\* ------------------------------------------------------------------------
\* Bounds of the explored inputs
\* ------------------------------------------------------------------------

\* largest number of hits in one payload
MaxSpans == 3

\* largest number of parent links (jaeger references, data-prepper
\* parentSpanId values) carried by the hits of one payload
MaxRefs == 2

\* the same, for the payloads whose durations vary
MaxLayoutRefs == 1

\* largest number of calls of handlePayloadRequest made for one panel
MaxRequests == 2

\* the entries of the children arrays of inherited objects up to which a
\* further run of the payload effect is explored
MaxInherited == 3

\* ------------------------------------------------------------------------
\* JavaScript values
\* ------------------------------------------------------------------------

\* the value of a missing string-valued property; also the key under which
\* an object stores a property whose name is undefined
Undefined == "undefined"

\* the number produced by arithmetic on a missing numeric property
NaN == -999999999

\* Math.min() of no arguments
Infinity == 999999999

Plus(a, b) == IF a = NaN \/ b = NaN THEN NaN ELSE a + b

Minus(a, b) == IF a = NaN \/ b = NaN THEN NaN ELSE a - b

MathMax(a, b) == IF a = NaN \/ b = NaN THEN NaN ELSE IF a >= b THEN a ELSE b

\* a === b on numbers: false when an operand is NaN
StrictEquals(a, b) == a # NaN /\ b # NaN /\ a = b

\* a < b: false when an operand is NaN
LessThan(a, b) == a # NaN /\ b # NaN /\ a < b

\* x * 1.1
TimesOnePointOne(x) == IF x = NaN THEN NaN ELSE (x * 11) \div 10

RECURSIVE MathMin(_)
MathMin(xs) ==
  IF xs = <<>> THEN Infinity
  ELSE LET m == MathMin(Tail(xs))
       IN  IF Head(xs) = NaN \/ m = NaN THEN NaN
           ELSE IF Head(xs) <= m THEN Head(xs) ELSE m

\* lodash get(object, [key]): the property, or undefined when it is missing.
\* A JSON object is a record with the set of its own keys in field "keys".
Has(object, key) == key \in object.keys

Get(object, key) == IF Has(object, key) THEN object[key] ELSE Undefined

\* truthiness of a string-valued property
Truthy(v) == v # Undefined /\ v # ""

\* ------------------------------------------------------------------------
\* Unit conversions (helper_functions)
\* ------------------------------------------------------------------------

NanosPerMilli == 1000000

\* representation of one millisecond: a millionth of a millisecond is 1
MsUnit == NanosPerMilli

MicrosPerMilli == 1000

\* nano / 1000000, in milliseconds
nanoToMilliSec(nano) ==
  IF nano = NaN THEN NaN
  ELSE (nano \div NanosPerMilli) * MsUnit
         + ((nano % NanosPerMilli) * (MsUnit \div NanosPerMilli))

\* micro / 1000, in milliseconds
microToMilliSec(micro) ==
  IF micro = NaN THEN NaN
  ELSE (micro \div MicrosPerMilli) * MsUnit
         + ((micro % MicrosPerMilli) * (MsUnit \div MicrosPerMilli))

\* an ISO-8601 timestamp is kept as its whole milliseconds and the
\* nanoseconds below the millisecond
parseIsoToNano(iso) == iso.millis * NanosPerMilli + iso.nanos

\* lodash round(x, 2): Math.round at two decimals (halves go up)
round2(x) ==
  IF x = NaN THEN NaN
  ELSE ((x + (MsUnit \div 200)) \div (MsUnit \div 100)) * (MsUnit \div 100)

\* Number.prototype.toFixed(2): the decimal text, kept as the number of
\* hundredths it shows
toFixed2(x) ==
  IF x = NaN THEN NaN
  ELSE (x + (MsUnit \div 200)) \div (MsUnit \div 100)

\* ------------------------------------------------------------------------
\* Span parser
\* ------------------------------------------------------------------------

ErrorMark == " Error"

\* DurationInMs without the call of round
DurationInMsUnrounded(src, mode) ==
  IF mode = "jaeger"
  THEN microToMilliSec(IF Has(src, "duration") THEN src.duration ELSE NaN)
  ELSE nanoToMilliSec(IF Has(src, "durationInNanos") THEN src.durationInNanos ELSE NaN)

\* const durationInMs = ...
DurationInMs(src, mode) ==
  IF mode = "jaeger"
  THEN round2(microToMilliSec(IF Has(src, "duration") THEN src.duration ELSE NaN))
  ELSE round2(nanoToMilliSec(IF Has(src, "durationInNanos")
                             THEN src.durationInNanos ELSE NaN))

\* The fields of one span read from a hit.  The property 'status.code' of a
\* data-prepper hit is the record field statusCode.  threw is "none", or the error
\* raised by the property access on a missing process object.
parseSpanHitData(span, mode) ==
  LET src == span.source
      spanId == IF mode = "jaeger" THEN Get(src, "spanID") ELSE Get(src, "spanId")
      durationInMs == DurationInMs(src, mode)
      processMissing == mode = "jaeger" /\ ~Has(src, "process")
      serviceName ==
        IF mode = "jaeger"
        THEN (IF processMissing THEN Undefined ELSE Get(src.process, "serviceName"))
        ELSE Get(src, "serviceName")
      name == IF mode = "jaeger" THEN Get(src, "operationName") ELSE Get(src, "name")
      error ==
        IF mode = "jaeger"
        THEN (IF Has(src, "tag") /\ Has(src.tag, "error") /\ src.tag.error = TRUE
              THEN ErrorMark ELSE "")
        ELSE (IF Has(src, "status.code") /\ src.statusCode = 2
              THEN ErrorMark ELSE "")
  IN  [threw        |-> IF processMissing THEN "TypeError" ELSE "none",
       spanId       |-> spanId,
       durationInMs |-> durationInMs,
       serviceName  |-> serviceName,
       name         |-> name,
       error        |-> error]

\* ------------------------------------------------------------------------
\* Hierarchy builder
\* ------------------------------------------------------------------------

getStartTimeInNanos(hit, mode) ==
  IF mode = "jaeger"
  THEN hit.source.startTime * 1000
  ELSE parseIsoToNano(hit.source.startTime)

\* the property key under which a hit's span is stored in spanMap
SpanKey(hit, mode) ==
  IF mode = "jaeger" THEN Get(hit.source, "spanID") ELSE Get(hit.source, "spanId")

\* first forEach: spanMap[id] = {hit, startTimeInNanos, children: []};
\* a later hit with the same id replaces the earlier node
RECURSIVE BuildSpanMap(_, _, _)
BuildSpanMap(hits, mode, spanMap) ==
  IF hits = <<>> THEN spanMap
  ELSE LET hit == Head(hits)
           key == SpanKey(hit, mode)
           node == [hit |-> hit,
                    startTimeInNanos |-> getStartTimeInNanos(hit, mode),
                    children |-> <<>>]
       IN  BuildSpanMap(Tail(hits), mode,
             [k \in DOMAIN spanMap \cup {key} |->
                IF k = key THEN node ELSE spanMap[k]])

\* The names of the properties that spanMap, a plain object ({}), inherits
\* from Object.prototype: spanMap[name] gives the inherited function when
\* no hit has stored a node under name, and spanMap.__proto__ gives
\* Object.prototype itself.
ObjectPrototypeNames ==
  {"constructor", "hasOwnProperty", "isPrototypeOf", "propertyIsEnumerable",
   "toLocaleString", "toString", "valueOf", "__proto__", "__defineGetter__",
   "__defineSetter__", "__lookupGetter__", "__lookupSetter__"}

\* The properties of a node.  spanMap["__proto__"] = node stores no
\* property: it makes the node the prototype of spanMap, which then
\* inherits the properties of that node (and, through the node, those of
\* Object.prototype); spanMap["__proto__"] gives the node back.
NodeProperties == {"hit", "startTimeInNanos", "children"}

\* The children arrays of the objects that are no nodes: own is the set of
\* the names of the objects that have an own property children, and pushed
\* lists the pushes into these arrays as <<name, span id>>, in the order
\* in which they were made.  A name of ObjectPrototypeNames stands for the
\* inherited object of that name (Object.prototype for "__proto__"); these
\* objects belong to the realm and outlive the call.  During a call "hit"
\* and "children" stand for the hit and for the children array of the node
\* that is the prototype of spanMap.
NoInherited == [own |-> {}, pushed |-> <<>>]

\* the number of entries of the arrays of inherited
InheritedSize(realm) == Len(realm.pushed)

\* the value of spanMap[key]: a node, another object, a number or undefined
Lookup(st, key) ==
  IF key \in DOMAIN st.spanMap
  THEN [kind |-> "node", name |-> key]
  ELSE IF "__proto__" \in DOMAIN st.spanMap /\ key \in NodeProperties
  THEN (IF key # "startTimeInNanos"
        THEN [kind |-> "object", name |-> key]
        ELSE IF st.spanMap["__proto__"].startTimeInNanos \in {0, NaN}
        THEN [kind |-> "undefined", name |-> key]
        ELSE [kind |-> "number", name |-> key])
  ELSE IF key \in ObjectPrototypeNames
  THEN [kind |-> "object", name |-> key]
  ELSE IF key = "children" /\ "__proto__" \in st.inherited.own
  THEN [kind |-> "object", name |-> key]
  ELSE [kind |-> "undefined", name |-> key]

\* whether spanMap[key] is truthy
InSpanMap(st, key) ==
  key \in DOMAIN st.spanMap \/ Lookup(st, key).kind \notin {"undefined"}

\* The name under which inherited holds the array that parentSpan.children
\* is after `if (!parentSpan.children) parentSpan.children = []`, for a
\* parentSpan that is no node: its own array, else the array it inherits
\* from Object.prototype, else a new array of its own.  A number without an
\* inherited array has none: the assignment (or the push that follows it)
\* throws a TypeError.
ChildrenOf(st, parentSpan) ==
  IF parentSpan.name \in st.inherited.own THEN parentSpan.name
  ELSE IF "__proto__" \in st.inherited.own THEN "__proto__"
  ELSE IF parentSpan.kind = "number" THEN "TypeError"
  ELSE parentSpan.name

\* if (!parentSpan.children) parentSpan.children = [];
EnsureChildren(st, parentId) ==
  LET parentSpan == Lookup(st, parentId)
      name == ChildrenOf(st, parentSpan)
  IN  IF parentId \in DOMAIN st.spanMap THEN st
      ELSE IF name = "TypeError" THEN [st EXCEPT !.threw = "TypeError"]
      ELSE [st EXCEPT !.inherited.own = @ \cup {name}]

\* if (!parentSpan.children) parentSpan.children = [];
\* parentSpan.children.push(spanMap[childId]).
\* When parentSpan is no node the array is one that no node of spanMap
\* refers to.
PushChild(st, parentId, childId) ==
  LET parentSpan == Lookup(st, parentId)
      st1 == EnsureChildren(st, parentId)
  IN  IF parentId \in DOMAIN st.spanMap
      THEN [st EXCEPT !.spanMap[parentId].children = Append(@, childId)]
      ELSE IF st1.threw # "none" THEN st1
      ELSE [st1 EXCEPT !.inherited.pushed =
                         Append(@, <<ChildrenOf(st1, parentSpan), childId>>)]

\* addRootSpan without the test of alreadyAddedRootSpans
addRootSpanUnguarded(spanId, st) ==
  [st EXCEPT !.rootSpans = Append(@, spanId),
             !.alreadyAddedRootSpans = @ \cup {spanId}]

addRootSpan(spanId, st) ==
  IF spanId \notin st.alreadyAddedRootSpans
  THEN [st EXCEPT !.rootSpans = Append(@, spanId),
                  !.alreadyAddedRootSpans = @ \cup {spanId}]
  ELSE st

\* body of references.forEach for one reference of the span spanId
JaegerReference(st, spanId, ref) ==
  LET st1 == IF ref.refType = "CHILD_OF" /\ InSpanMap(st, ref.spanID)
             THEN PushChild(st, ref.spanID, spanId)
             ELSE st
  IN  IF /\ st1.threw = "none"
         /\ ref.refType = "FOLLOWS_FROM"
         /\ spanId \notin st1.alreadyAddedRootSpans
      THEN addRootSpan(spanId, st1)
      ELSE st1

\* references.forEach, which an exception leaves
RECURSIVE JaegerReferences(_, _, _)
JaegerReferences(st, spanId, refs) ==
  IF refs = <<>> \/ st.threw # "none" THEN st
  ELSE JaegerReferences(JaegerReference(st, spanId, Head(refs)), spanId, Tail(refs))

\* whether the span is registered as a root after its references were walked
JaegerIsRoot(references) ==
  Len(references) = 0
    \/ \A i \in 1..Len(references) : references[i].refType = "FOLLOWS_FROM"

JaegerHit(st, hit) ==
  LET source == hit.source
      spanId == Get(source, "spanID")
      references == IF Has(source, "references") THEN source.references ELSE <<>>
      st1 == JaegerReferences(st, spanId, references)
  IN  IF st1.threw = "none" /\ JaegerIsRoot(references)
      THEN addRootSpan(spanId, st1)
      ELSE st1

DataPrepperHit(st, hit) ==
  LET source == hit.source
      spanId == Get(source, "spanId")
      parentSpanId == Get(source, "parentSpanId")
  IN  IF Truthy(parentSpanId) /\ InSpanMap(st, parentSpanId)
      THEN LET st1 == EnsureChildren(st, parentSpanId)
           IN  IF st1.threw = "none" /\ InSpanMap(st1, spanId)
               THEN PushChild(st1, parentSpanId, spanId)
               ELSE st1
      ELSE (IF Truthy(spanId) /\ InSpanMap(st, spanId)
            THEN addRootSpan(spanId, st)
            ELSE st)

\* second forEach, which an exception leaves
RECURSIVE LinkHits(_, _, _)
LinkHits(st, hits, mode) ==
  IF hits = <<>> \/ st.threw # "none" THEN st
  ELSE LinkHits(IF mode = "jaeger" THEN JaegerHit(st, Head(hits))
                                   ELSE DataPrepperHit(st, Head(hits)),
                Tail(hits), mode)

\* The returned array is rootSpans; the nodes it refers to are in spanMap.
\* realm is what the objects of the realm hold before the call, and the
\* field inherited of the result what they hold after it; threw is the
\* exception that left the call, after which nothing is returned.
hitsToHierarchicalSpans(hits, mode, realm) ==
  LET st == LinkHits([spanMap |-> BuildSpanMap(hits, mode, <<>>),
                      rootSpans |-> <<>>,
                      alreadyAddedRootSpans |-> {},
                      inherited |-> realm,
                      threw |-> "none"],
                     hits, mode)
      OfRealm(push) == push[1] \in ObjectPrototypeNames
      after == [own |-> st.inherited.own \cap ObjectPrototypeNames,
                pushed |-> SelectSeq(st.inherited.pushed, OfRealm)]
  IN  IF st.threw # "none"
      THEN [rootSpans |-> <<>>, spanMap |-> <<>>, inherited |-> after,
            threw |-> st.threw]
      ELSE [rootSpans |-> st.rootSpans, spanMap |-> st.spanMap,
            inherited |-> after, threw |-> "none"]

\* ------------------------------------------------------------------------
\* Timeline layout
\* ------------------------------------------------------------------------

\* the values of props.colorMap explored
ColorMaps ==
  {[serviceName \in {"svc"} |-> "#54B399"], [serviceName \in {"svc"} |-> "#6092C0"]}

\* the dependencies of the payload effect; at the first render all are new
EffectDeps == {"payloadData", "mode", "colorMap"}

\* toggleOptions: the ids of the views
ToggleIds == <<"timeline", "span_list", "hierarchy_span_list">>

\* Array.prototype.sort((a, b) => a.startTimeInNanos - b.startTimeInNanos):
\* a stable sort; a node goes after the nodes that do not start later
RECURSIVE InsertByStart(_, _, _)
InsertByStart(sorted, span, spanMap) ==
  IF sorted = <<>> THEN <<span>>
  ELSE IF spanMap[Head(sorted)].startTimeInNanos <= spanMap[span].startTimeInNanos
       THEN <<Head(sorted)>> \o InsertByStart(Tail(sorted), span, spanMap)
       ELSE <<span>> \o sorted

\* SortByStart that leaves the array as it is
SortByStartKeepOrder(spans, spanMap) == spans

RECURSIVE SortByStart(_, _)
SortByStart(spans, spanMap) ==
  IF spans = <<>> THEN <<>>
  ELSE InsertByStart(SortByStart(SubSeq(spans, 1, Len(spans) - 1), spanMap),
                     spans[Len(spans)], spanMap)

\* the bar pushed to data
SpanBar(parsed, delayInMs, colors) ==
  [x          |-> <<parsed.durationInMs>>,
   y          |-> <<parsed.spanId>>,
   customdata |-> <<parsed.spanId, parsed.durationInMs, delayInMs>>,
   color      |-> IF parsed.serviceName \in DOMAIN colors
                  THEN colors[parsed.serviceName] ELSE Undefined,
   base       |-> delayInMs,
   spanId     |-> parsed.spanId]

\* the label pushed to annotations; text is the sequence of the parts of
\* the template string
SpanBarLabel(parsed, delayInMs) ==
  [x    |-> delayInMs,
   y    |-> parsed.spanId,
   text |-> <<parsed.error, parsed.serviceName, parsed.name,
              toFixed2(parsed.durationInMs)>>]

\* NextMaxX that leaves out the duration
NextMaxXOffsetOnly(maxX, delayInMs, durationInMs) == MathMax(maxX, delayInMs)

\* maxX = Math.max(maxX, delayInMs + durationInMs)
NextMaxX(maxX, delayInMs, durationInMs) ==
  MathMax(maxX, Plus(delayInMs, durationInMs))

\* delayInMs of a span
DelayInMs(span, startTimeInMs) ==
  Minus(nanoToMilliSec(span.startTimeInNanos), startTimeInMs)

\* processSpan.  acc holds data, annotations and maxX of createPlotlyData
\* and, in acc.spanMap, the nodes, whose children arrays the walk sorts in
\* place;
\* acc.callers[i] is the index of the bar pushed by the invocation that
\* called the invocation pushing bar i (0 when called on a root), and
\* acc.threw the error that ended the walk.  active is the set of nodes
\* whose invocation is on the call stack: an invocation on such a node
\* repeats the calls below it without end, until the call stack is
\* exhausted and a RangeError is thrown.
RECURSIVE processSpan(_, _, _, _, _)
RECURSIVE forEachProcessSpan(_, _, _, _, _)
processSpan(span, caller, active, acc, ctx) ==
  IF acc.threw # "none" THEN acc
  ELSE IF span \in active THEN [acc EXCEPT !.threw = "RangeError"]
  ELSE
    LET node == acc.spanMap[span]
        delayInMs == DelayInMs(node, ctx.startTimeInMs)
        parsed == parseSpanHitData(node.hit, ctx.mode)
    IN  IF parsed.threw # "none" THEN [acc EXCEPT !.threw = parsed.threw]
        ELSE
          LET acc1 == [data        |-> Append(acc.data,
                                              SpanBar(parsed, delayInMs, ctx.colorMap)),
                       annotations |-> Append(acc.annotations,
                                              SpanBarLabel(parsed, delayInMs)),
                       maxX        |-> NextMaxX(acc.maxX, delayInMs,
                                                parsed.durationInMs),
                       callers     |-> Append(acc.callers, caller),
                       threw       |-> "none",
                       spanMap     |-> [acc.spanMap EXCEPT ![span].children =
                                          SortByStart(@, acc.spanMap)]]
          IN  forEachProcessSpan(acc1.spanMap[span].children,
                                 Len(acc1.data), active \cup {span}, acc1, ctx)

forEachProcessSpan(spans, caller, active, acc, ctx) ==
  IF spans = <<>> THEN acc
  ELSE forEachProcessSpan(Tail(spans), caller, active,
                          processSpan(Head(spans), caller, active, acc, ctx), ctx)

\* spans is the value returned by hitsToHierarchicalSpans.  Both calls of
\* sort work in place: the field spans of the result is the forest as the
\* call leaves it, with the root array and the children arrays of the
\* nodes walked in start order.
createPlotlyData(spans, mode, colors, startTimeInMs) ==
  LET sorted == SortByStart(spans.rootSpans, spans.spanMap)
      acc == forEachProcessSpan(sorted, 0, {},
               [data |-> <<>>, annotations |-> <<>>, maxX |-> 0,
                callers |-> <<>>, threw |-> "none", spanMap |-> spans.spanMap],
               [mode |-> mode, colorMap |-> colors, startTimeInMs |-> startTimeInMs])
  IN  [data |-> acc.data, annotations |-> acc.annotations, maxX |-> acc.maxX,
       callers |-> acc.callers, threw |-> acc.threw,
       spans |-> [rootSpans |-> sorted, spanMap |-> acc.spanMap]]

\* Math.min(...hierarchicalSpans.map((span) => nanoToMilliSec(span.startTimeInNanos)))
StartTimeInMs(spans) ==
  MathMin([i \in 1..Len(spans.rootSpans) |->
             nanoToMilliSec(spans.spanMap[spans.rootSpans[i]].startTimeInNanos)])

\* parseHits(props.payloadData): the hits of the JSON text
parseHits(payload) == payload.hits

\* ------------------------------------------------------------------------
\* Payloads explored
\* ------------------------------------------------------------------------

IdNames == <<"s1", "s2", "s3", "s4", "s5", "s6">>

SpanIds(n) == {IdNames[i] : i \in 1..n}

\* a span id that no hit carries
AbsentId == "s0"

\* a span id that no hit carries and that names a property spanMap inherits
InheritedId == "constructor"

\* jaeger startTime and duration are in microseconds
JaegerStartTimes == {0, 1000}

JaegerDurations == {1235, 10000}

\* data-prepper startTime is an ISO timestamp, durationInNanos in nanoseconds
DataPrepperStartTimes == {[millis |-> m, nanos |-> 0] : m \in 0..1}

DataPrepperDurations == {1234567, 10000000}

\* the references a span of a payload of n hits may carry.  The spanID of
\* a FOLLOWS_FROM reference is never read: it names the first span.
JaegerRefs(n) ==
  {[refType |-> "CHILD_OF", spanID |-> id] : id \in SpanIds(n) \cup {AbsentId}}
    \cup {[refType |-> "FOLLOWS_FROM", spanID |-> IdNames[1]]}

\* the reference lists of k spans that carry at most budget references
RECURSIVE JaegerRefLists(_, _, _)
JaegerRefLists(k, budget, n) ==
  IF k = 0 THEN {<<>>}
  ELSE UNION {{Append(rest, refs) :
                 refs \in [1..len -> JaegerRefs(n)],
                 rest \in JaegerRefLists(k - 1, budget - len, n)} :
              len \in 0..budget}

\* the parentSpanId values of n spans, at most budget of them present;
\* Undefined stands for a hit without the property
DataPrepperParents(budget, n) ==
  {ps \in [1..n -> SpanIds(n) \cup {AbsentId, Undefined}] :
     Cardinality({i \in 1..n : ps[i] # Undefined}) <= budget}

JaegerHitOf(id, startTime, duration, references) ==
  [source |->
     [keys |-> {"spanID", "startTime", "duration", "references", "process",
                "operationName", "tag"},
      spanID |-> id, startTime |-> startTime, duration |-> duration,
      references |-> references,
      process |-> [keys |-> {"serviceName"}, serviceName |-> "svc"],
      operationName |-> "op",
      tag |-> [keys |-> {}, error |-> FALSE]]]

DataPrepperHitOf(id, startTime, duration, parent) ==
  [source |->
     [keys |-> {"spanId", "startTime", "durationInNanos", "serviceName", "name",
                "status.code"}
               \cup (IF parent = Undefined THEN {} ELSE {"parentSpanId"}),
      spanId |-> id, startTime |-> startTime, durationInNanos |-> duration,
      parentSpanId |-> parent, serviceName |-> "svc", name |-> "op",
      statusCode |-> 0]]

\* payloads of n hits with distinct span ids
JaegerPayloads(n, budget, durations) ==
  {[i \in 1..n |-> JaegerHitOf(IdNames[i], starts[i], durs[i], refs[i])] :
     starts \in [1..n -> JaegerStartTimes],
     durs \in [1..n -> durations],
     refs \in JaegerRefLists(n, budget, n)}

DataPrepperPayloads(n, budget, durations) ==
  {[i \in 1..n |-> DataPrepperHitOf(IdNames[i], starts[i], durs[i], parents[i])] :
     starts \in [1..n -> DataPrepperStartTimes],
     durs \in [1..n -> durations],
     parents \in DataPrepperParents(budget, n)}

\* one hit from which any of the properties read by parseSpanHitData may
\* be missing
JaegerPartialHits ==
  {[source |->
      [keys |-> keys \cup {"startTime", "references"},
       spanID |-> "s1", startTime |-> 0, duration |-> 1235,
       references |-> <<>>,
       process |-> [keys |-> processKeys, serviceName |-> "svc"],
       operationName |-> "op",
       tag |-> [keys |-> {"error"}, error |-> tagError]]] :
     keys \in SUBSET {"spanID", "duration", "process", "operationName", "tag"},
     processKeys \in SUBSET {"serviceName"},
     tagError \in BOOLEAN}

DataPrepperPartialHits ==
  {[source |->
      [keys |-> keys \cup {"startTime"},
       spanId |-> "s1", startTime |-> [millis |-> 0, nanos |-> 0],
       durationInNanos |-> 1234567, parentSpanId |-> Undefined,
       serviceName |-> "svc", name |-> "op", statusCode |-> code]] :
     keys \in SUBSET {"spanId", "durationInNanos", "serviceName", "name",
                      "status.code"},
     code \in {0, 2}}

\* ------------------------------------------------------------------------
\* handlePayloadRequest
\* ------------------------------------------------------------------------

\* normalizePayload(response): response.hits.hits, or [] when it is missing
normalizePayload(response) ==
  IF Has(response, "hits") /\ Has(response.hits, "hits")
  THEN response.hits.hits
  ELSE <<>>

\* hit.sort && hit.sort[0] ? hit.sort : [time]
SortOf(hit, mode) ==
  IF "sort" \in DOMAIN hit /\ hit.sort # <<>> /\ hit.sort[1] # 0 /\ hit.sort[1] # NaN
  THEN hit.sort
  ELSE <<getStartTimeInNanos(hit, mode)>>

\* { ...hit, sort: ... }
WithSort(hit, mode) == [source |-> hit.source, sort |-> SortOf(hit, mode)]

\* Array.prototype.sort((a, b) => b.sort[0] - a.sort[0]): a stable sort; a
\* hit goes after the hits whose sort value is not smaller
RECURSIVE InsertBySortDescending(_, _)
InsertBySortDescending(sorted, hit) ==
  IF sorted = <<>> THEN <<hit>>
  ELSE IF Head(sorted).sort[1] >= hit.sort[1]
       THEN <<Head(sorted)>> \o InsertBySortDescending(Tail(sorted), hit)
       ELSE <<hit>> \o sorted

RECURSIVE SortDescending(_)
SortDescending(hits) ==
  IF hits = <<>> THEN <<>>
  ELSE InsertBySortDescending(SortDescending(SubSeq(hits, 1, Len(hits) - 1)),
                              hits[Len(hits)])

\* sortedData of the .then callback
SortedData(response, mode) ==
  LET normalizedData == normalizePayload(response)
  IN  SortDescending([i \in 1..Len(normalizedData) |->
                        WithSort(normalizedData[i], mode)])

\* the argument of setPayloadData: JSON.stringify(sortedData, null, 2)
PayloadOf(response, mode) == [empty |-> FALSE, hits |-> SortedData(response, mode)]

\* a response with the hits
ResponseWith(hits) ==
  [keys |-> {"hits"}, hits |-> [keys |-> {"hits"}, hits |-> hits]]

\* a response without hits.hits
ResponseWithoutHits == [keys |-> {}]

ChildOf(id) == <<[refType |-> "CHILD_OF", spanID |-> id]>>

\* the hit with the sort value the search gave it
Sorted(hit, sort) == [source |-> hit.source, sort |-> <<sort>>]

\* the trace of one span of 10 ms
OneSpanHits(mode) ==
  IF mode = "jaeger"
  THEN <<JaegerHitOf("s1", 0, 10000, <<>>)>>
  ELSE <<Sorted(DataPrepperHitOf("s1", [millis |-> 0, nanos |-> 0], 10000000,
                                 Undefined), 0)>>

\* the trace of 100 ms: a root of 100 ms and children that start 10 ms
\* later, of 50 ms and of 5 ms
ZoomHits(mode) ==
  IF mode = "jaeger"
  THEN <<JaegerHitOf("s1", 0, 100000, <<>>),
         JaegerHitOf("s2", 10000, 50000, ChildOf("s1")),
         JaegerHitOf("s3", 10000, 5000, ChildOf("s1"))>>
  ELSE <<Sorted(DataPrepperHitOf("s1", [millis |-> 0, nanos |-> 0], 100000000,
                                 Undefined), 0),
         Sorted(DataPrepperHitOf("s2", [millis |-> 10, nanos |-> 0], 50000000,
                                 "s1"), 10),
         Sorted(DataPrepperHitOf("s3", [millis |-> 10, nanos |-> 0], 5000000,
                                 "s1"), 10)>>

\* the trace of one span without duration
NoDurationHits(mode) ==
  LET hit == OneSpanHits(mode)[1]
  IN  <<[hit EXCEPT !.source.keys = @ \ {"duration", "durationInNanos"}]>>

\* the responses of handleDslRequest explored
Responses(mode) ==
  {ResponseWith(OneSpanHits(mode)), ResponseWith(ZoomHits(mode)),
   ResponseWith(NoDurationHits(mode)), ResponseWith(<<>>), ResponseWithoutHits}

\* the outcomes of handleDslRequest explored: a response, or a rejection
Outcomes(mode) ==
  {[rejected |-> FALSE, response |-> r] : r \in Responses(mode)}
    \cup {[rejected |-> TRUE, response |-> ResponseWithoutHits]}

\* the values of props.payloadData explored with the viewport: the empty
\* string and the payloads that handlePayloadRequest makes of the responses
ViewportPayloads(mode) ==
  {[empty |-> TRUE, hits |-> <<>>]}
    \cup {PayloadOf(r, mode) : r \in Responses(mode)}

\* ------------------------------------------------------------------------
\* SpanDetailPanel
\* ------------------------------------------------------------------------

VARIABLES
  mode,               \* props.mode
  colorMap,           \* props.colorMap
  toggleIdSelected,   \* state toggleIdSelected
  changedDeps,        \* the dependencies of the payload effect that have
                      \* changed since the effect ran
  inherited,          \* the children arrays that Object.prototype and the
                      \* objects it holds have been given
  payloadData,        \* props.payloadData: empty is the empty string
  pc,                 \* "mounted": the payload effect is pending;
                      \* "rendered": it has run; "crashed": it threw;
                      \* "parse", "parsed": before and after a call of
                      \* parseSpanHitData on the hit of the payload
  hierarchicalSpans,  \* the forest built by the last run of the effect, as
                      \* createPlotlyData has left it
  callers,            \* the calls of processSpan in the last run
  data,               \* state data: gantt, ganttAnnotations, ganttMax
  selectedRange,      \* state selectedRange
  thrown,             \* the error thrown by the effect, "none" if none
  parsed,             \* the value returned by parseSpanHitData
  spanFilters,        \* props.spanFilters
  requests,           \* the calls of handlePayloadRequest, oldest first:
                      \* the response of each and whether it has arrived
  lastEvent           \* the handler that ran last, its argument, the
                      \* range that ResetZoom or the list of filters that
                      \* addSpanFilter or removeSpanFilter found, and whether
                      \* it called props.setSpanFiltersWithStorage

vars == <<mode, colorMap, toggleIdSelected, changedDeps, inherited,
         payloadData, pc, hierarchicalSpans, callers, data, selectedRange,
         thrown, parsed, spanFilters, requests, lastEvent>>

NoSpans == [rootSpans |-> <<>>, spanMap |-> <<>>]

NotParsed == [threw |-> "none", spanId |-> Undefined, durationInMs |-> NaN,
              serviceName |-> Undefined, name |-> Undefined, error |-> ""]

Modes == {"jaeger", "data_prepper"}

\* lastEvent of a panel no handler of which has run
NoEvent == [op |-> "none", arg |-> <<>>, before |-> <<>>, stored |-> FALSE]

\* lastEvent after the handler op has run
Event(op, arg, before, stored) ==
  [op |-> op, arg |-> arg, before |-> before, stored |-> stored]

\* the state of the useState hooks of a panel that has not run an effect
InitPanel ==
  /\ colorMap = [serviceName \in {"svc"} |-> "#54B399"]
  /\ toggleIdSelected = ToggleIds[1]
  /\ changedDeps = EffectDeps
  /\ inherited = NoInherited
  /\ hierarchicalSpans = NoSpans
  /\ callers = <<>>
  /\ data = [gantt |-> <<>>, ganttAnnotations |-> <<>>, ganttMax |-> 0]
  /\ selectedRange = <<0, 0>>
  /\ thrown = "none"
  /\ parsed = NotParsed
  /\ requests = <<>>
  /\ lastEvent = NoEvent

\* the panel is constructed with a payload of at most MaxSpans hits that
\* carry at most budget parent links and durations of the given sets
InitPayload(budget, jaegerDurations, dataPrepperDurations) ==
  /\ mode \in Modes
  /\ \E n \in 0..MaxSpans :
       \/ /\ n = 0
          /\ payloadData \in {[empty |-> TRUE, hits |-> <<>>],
                              [empty |-> FALSE, hits |-> <<>>]}
       \/ /\ n > 0
          /\ \E hits \in IF mode = "jaeger"
                         THEN JaegerPayloads(n, budget, jaegerDurations)
                         ELSE DataPrepperPayloads(n, budget, dataPrepperDurations) :
               payloadData = [empty |-> FALSE, hits |-> hits]
  /\ pc = "mounted"
  /\ spanFilters = <<>>
  /\ InitPanel

\* the jaeger payload of three spans: R (start 0, 10 ms), C1 CHILD_OF R
\* (start 2,000,000 ns, 5 ms) and C2 without references (start 1,000,000 ns)
ThreeSpanPayload ==
  <<JaegerHitOf("s1", 0, 10000, <<>>),
    JaegerHitOf("s2", 2000, 5000, <<[refType |-> "CHILD_OF", spanID |-> "s1"]>>),
    JaegerHitOf("s3", 1000, 10000, <<>>)>>

InitThreeSpans ==
  /\ mode = "jaeger"
  /\ payloadData = [empty |-> FALSE, hits |-> ThreeSpanPayload]
  /\ pc = "mounted"
  /\ spanFilters = <<>>
  /\ InitPanel

\* payloads of one hit and of two hits that name objects spanMap inherits:
\* the first hit has the span id "s1" or "__proto__" and no parent, the
\* parent InheritedId, "__proto__" or "children"; the second hit has no
\* parent, the first hit as parent, or a parent that names an inherited
\* object or a property of a node
InheritedFirstIds == {"s1", "__proto__"}

InheritedFirstParents == {Undefined, InheritedId, "__proto__", "children"}

InheritedSecondParents ==
  {Undefined, "s1", InheritedId, "children", "hit", "startTimeInNanos"}

InheritedPayloads(m) ==
  LET ChildOfOrNone(parent) ==
        IF parent = Undefined THEN <<>>
        ELSE <<[refType |-> "CHILD_OF", spanID |-> parent]>>
      First(id, start, parent) ==
        IF m = "jaeger"
        THEN JaegerHitOf(id, start * 1000, 10000, ChildOfOrNone(parent))
        ELSE DataPrepperHitOf(id, [millis |-> start, nanos |-> 0], 10000000, parent)
      Second(parent) ==
        IF m = "jaeger"
        THEN JaegerHitOf("s2", 1000, 10000, ChildOfOrNone(parent))
        ELSE DataPrepperHitOf("s2", [millis |-> 1, nanos |-> 0], 10000000, parent)
      firsts == {First(id, start, parent) :
                   id \in InheritedFirstIds, start \in 0..1,
                   parent \in InheritedFirstParents}
  IN  {<<first>> : first \in firsts}
        \cup {<<first, Second(parent)>> :
                first \in firsts, parent \in InheritedSecondParents}
        \cup {<<Second(parent), first>> :
                first \in firsts, parent \in {"children"}}

InitInherited ==
  /\ mode \in Modes
  /\ \E hits \in InheritedPayloads(mode) :
       payloadData = [empty |-> FALSE, hits |-> hits]
  /\ pc = "mounted"
  /\ spanFilters = <<>>
  /\ InitPanel

\* payloads of spans of one duration, with up to MaxRefs parent links, the
\* payload of three spans, and the payloads with an inherited parent name
Init == InitPayload(MaxRefs, {10000}, {10000000}) \/ InitThreeSpans \/ InitInherited

\* payloads of spans of several durations, with up to MaxLayoutRefs parent links
InitLayout == InitPayload(MaxLayoutRefs, JaegerDurations, DataPrepperDurations)

\* a payload of one hit with missing properties, handed to parseSpanHitData
InitParse ==
  /\ mode \in Modes
  /\ \E hit \in IF mode = "jaeger" THEN JaegerPartialHits ELSE DataPrepperPartialHits :
       payloadData = [empty |-> FALSE, hits |-> <<hit>>]
  /\ pc = "parse"
  /\ spanFilters = <<>>
  /\ InitPanel

\* useEffect(..., [props.payloadData, mode, props.colorMap])
PayloadEffect ==
  /\ pc = "mounted"
  /\ IF payloadData.empty
     THEN /\ pc' = "rendered"
          /\ UNCHANGED <<hierarchicalSpans, callers, data, selectedRange, thrown,
                         inherited>>
     ELSE \E spans \in {hitsToHierarchicalSpans(parseHits(payloadData), mode,
                                                inherited)} :
            /\ inherited' = spans.inherited
            /\ IF spans.threw # "none"
               THEN /\ pc' = "crashed"
                    /\ thrown' = spans.threw
                    /\ hierarchicalSpans' = NoSpans
                    /\ UNCHANGED <<callers, data, selectedRange>>
               ELSE \E plot \in {createPlotlyData(spans, mode, colorMap,
                                                  StartTimeInMs(spans))} :
                      /\ hierarchicalSpans' = plot.spans
                      /\ IF plot.threw # "none"
                         THEN /\ pc' = "crashed"
                              /\ thrown' = plot.threw
                              /\ UNCHANGED <<callers, data, selectedRange>>
                         ELSE /\ pc' = "rendered"
                              /\ callers' = plot.callers
                              /\ data' = [gantt |-> plot.data,
                                          ganttAnnotations |-> plot.annotations,
                                          ganttMax |-> plot.maxX]
                              /\ selectedRange' = <<0, TimesOnePointOne(plot.maxX)>>
                              /\ UNCHANGED thrown
  /\ changedDeps' = {}
  /\ lastEvent' = Event("effect", <<>>, inherited, FALSE)
  /\ UNCHANGED <<mode, colorMap, toggleIdSelected, payloadData, parsed,
                 spanFilters, requests>>

\* a call parseSpanHitData(hit, mode) on the hit of the payload
ParseSpan ==
  /\ pc = "parse"
  /\ parsed' = parseSpanHitData(parseHits(payloadData)[1], mode)
  /\ pc' = "parsed"
  /\ UNCHANGED <<mode, colorMap, toggleIdSelected, changedDeps, inherited,
                 payloadData, hierarchicalSpans, callers, data, selectedRange,
                 thrown, spanFilters, requests, lastEvent>>

\* ------------------------------------------------------------------------
\* Viewport
\* ------------------------------------------------------------------------

\* fullRange without the margin of a tenth
fullRangeWithoutMargin == <<0, data.ganttMax>>

\* const fullRange = [0, data.ganttMax * 1.1], computed by every render
fullRange == <<0, TimesOnePointOne(data.ganttMax)>>

\* get(event, path, null) of a path the event does not have
Null == <<>>

\* the values of get(event, path, null): null, or <<v>> for the number v
Maybe(numbers) == {Null} \cup {<<v>> : v \in numbers}

\* truthiness of such a value: null, 0 and NaN are falsy
TruthyNumber(v) == v # Null /\ v[1] # 0 /\ v[1] # NaN

\* a || b
Or(a, b) == IF TruthyNumber(a) THEN a ELSE b

\* the numbers carried by relayout events as xaxis.range[0], xaxis.range[1]
RangeNumbers == {-5 * MsUnit, 0, 20 * MsUnit, 50 * MsUnit, 200 * MsUnit}

\* the numbers carried by relayout events as selections[0].x0, selections[0].x1
SelectionNumbers == {0, 30 * MsUnit}

\* the relayout events explored: range0 is xaxis.range[0], range1 is
\* xaxis.range[1], x0 is selections[0].x0 and x1 is selections[0].x1
RelayoutEvents ==
  [range0 : Maybe(RangeNumbers), range1 : Maybe(RangeNumbers),
   x0 : Maybe(SelectionNumbers), x1 : Maybe(SelectionNumbers)]

\* a zoom to [20 ms, 50 ms] and a double click (autorange)
ZoomEvents ==
  {[range0 |-> <<20 * MsUnit>>, range1 |-> <<50 * MsUnit>>, x0 |-> Null, x1 |-> Null],
   [range0 |-> Null, range1 |-> Null, x0 |-> Null, x1 |-> Null]}

\* RelayoutRange that goes to [0, 0] when a value is missing
RelayoutRangeToOrigin(event, full) ==
  LET x0 == Or(event.range0, event.x0)
      x1 == Or(event.range1, event.x1)
  IN  IF TruthyNumber(x0) /\ TruthyNumber(x1) THEN <<x0[1], x1[1]>> ELSE <<0, 0>>

\* the argument of setSelectedRange in onRelayoutHandler
RelayoutRange(event, full) ==
  LET x0 == Or(event.range0, event.x0)
      x1 == Or(event.range1, event.x1)
  IN  IF TruthyNumber(x0) /\ TruthyNumber(x1) THEN <<x0[1], x1[1]>> ELSE full

\* onRelayout of the mini map and of the gantt chart, which the timeline
\* view shows
onRelayoutHandler(event) ==
  /\ pc = "rendered"
  /\ toggleIdSelected = "timeline"
  /\ selectedRange' = RelayoutRange(event, fullRange)
  /\ lastEvent' = Event("onRelayoutHandler", event, <<>>, FALSE)
  /\ UNCHANGED <<mode, colorMap, toggleIdSelected, changedDeps, inherited,
                 payloadData, pc, hierarchicalSpans, callers, data, thrown,
                 parsed, spanFilters, requests>>

\* onClick of the button "Reset zoom", which the timeline view shows and
\* which is disabled when selectedRange is fullRange
ResetZoom ==
  /\ pc = "rendered"
  /\ toggleIdSelected = "timeline"
  /\ ~(/\ StrictEquals(selectedRange[1], fullRange[1])
       /\ StrictEquals(selectedRange[2], fullRange[2]))
  /\ selectedRange' = fullRange
  /\ lastEvent' = Event("ResetZoom", <<>>, selectedRange, FALSE)
  /\ UNCHANGED <<mode, colorMap, toggleIdSelected, changedDeps, inherited,
                 payloadData, pc, hierarchicalSpans, callers, data, thrown,
                 parsed, spanFilters, requests>>

\* layout.annotations that moves every label that starts left of the viewport
LayoutAnnotationsAnyLength(chart, range) ==
  [i \in 1..Len(chart.ganttAnnotations) |->
     LET annotation == chart.ganttAnnotations[i]
     IN  [annotation EXCEPT !.x =
            IF /\ LessThan(annotation.x, range[1])
               /\ annotation.y = chart.gantt[i].y[1]
            THEN range[1]
            ELSE annotation.x]]

\* layout.annotations of the useMemo of layout: the labels of data, those
\* of the bars that cross the left edge of the viewport moved to that edge
LayoutAnnotations(chart, range) ==
  [i \in 1..Len(chart.ganttAnnotations) |->
     LET annotation == chart.ganttAnnotations[i]
     IN  [annotation EXCEPT !.x =
            IF /\ LessThan(annotation.x, range[1])
               /\ annotation.y = chart.gantt[i].y[1]
               /\ LessThan(range[1], Plus(chart.gantt[i].base, chart.gantt[i].x[1]))
            THEN range[1]
            ELSE annotation.x]]

\* onChange of the button group of the views
setToggleIdSelected(id) ==
  /\ pc = "rendered"
  /\ toggleIdSelected' = id
  /\ lastEvent' = Event("setToggleIdSelected", id, <<>>, FALSE)
  /\ UNCHANGED <<mode, colorMap, changedDeps, inherited, payloadData, pc,
                 hierarchicalSpans, callers, data, selectedRange, thrown,
                 parsed, spanFilters, requests>>

\* the owner hands the panel a new colorMap object, with the same colours
\* or with others: a dependency of the payload effect has changed.  Each
\* run of the effect may add to the arrays of inherited, which are never
\* emptied: the runs are explored while they hold less than MaxInherited
\* entries.
ColorMapChange(colors) ==
  /\ pc = "rendered"
  /\ InheritedSize(inherited) < MaxInherited
  /\ colorMap' = colors
  /\ pc' = "mounted"
  /\ changedDeps' = changedDeps \cup {"colorMap"}
  /\ lastEvent' = Event("ColorMapChange", <<>>, <<>>, FALSE)
  /\ UNCHANGED <<mode, toggleIdSelected, inherited, payloadData,
                 hierarchicalSpans, callers, data, selectedRange, thrown,
                 parsed, spanFilters, requests>>

\* ------------------------------------------------------------------------
\* Span filters
\* ------------------------------------------------------------------------

\* the fields and values of the filters explored
FilterFields == {"serviceName", "name", "spanId"}

FilterValues == {"a", "b"}

\* lists of filters with at most one filter of a field
UniqueFilterLists ==
  UNION {{filters \in [1..n -> [field : FilterFields, value : FilterValues]] :
            \A i, j \in 1..n : filters[i].field = filters[j].field => i = j} :
         n \in 0..Cardinality(FilterFields)}

\* filters.findIndex(({ field: filterField }) => field === filterField),
\* counted from 1; 0 when no filter has the field
findIndex(filters, field) ==
  IF \E i \in 1..Len(filters) : filters[i].field = field
  THEN CHOOSE i \in 1..Len(filters) :
         /\ filters[i].field = field
         /\ \A j \in 1..(i - 1) : filters[j].field # field
  ELSE 0

\* newFilters of addSpanFilter when every filter is pushed
AddedFilterPushed(filters, field, value) ==
  Append(filters, [field |-> field, value |-> value])

\* newFilters of addSpanFilter: push, or splice(index, 1, { field, value })
AddedFilter(filters, field, value) ==
  LET index == findIndex(filters, field)
  IN  IF index = 0
      THEN Append(filters, [field |-> field, value |-> value])
      ELSE SubSeq(filters, 1, index - 1) \o <<[field |-> field, value |-> value]>>
             \o SubSeq(filters, index + 1, Len(filters))

\* newFilters of removeSpanFilter: splice(index, 1)
RemovedFilter(filters, index) ==
  SubSeq(filters, 1, index - 1) \o SubSeq(filters, index + 1, Len(filters))

\* props.setSpanFiltersWithStorage(newFilters) gives the panel the new list
addSpanFilter(field, value) ==
  /\ pc = "rendered"
  /\ spanFilters' = AddedFilter(spanFilters, field, value)
  /\ lastEvent' = Event("addSpanFilter", [field |-> field, value |-> value],
                        spanFilters, TRUE)
  /\ UNCHANGED <<mode, colorMap, toggleIdSelected, changedDeps, inherited,
                 payloadData, pc, hierarchicalSpans, callers, data,
                 selectedRange, thrown, parsed, requests>>

removeSpanFilter(field) ==
  /\ pc = "rendered"
  /\ LET index == findIndex(spanFilters, field)
     IN  IF index # 0
         THEN /\ spanFilters' = RemovedFilter(spanFilters, index)
              /\ lastEvent' = Event("removeSpanFilter", field, spanFilters, TRUE)
         ELSE /\ UNCHANGED spanFilters
              /\ lastEvent' = Event("removeSpanFilter", field, spanFilters, FALSE)
  /\ UNCHANGED <<mode, colorMap, toggleIdSelected, changedDeps, inherited,
                 payloadData, pc, hierarchicalSpans, callers, data,
                 selectedRange, thrown, parsed, requests>>

\* ------------------------------------------------------------------------
\* Payload requests
\* ------------------------------------------------------------------------

\* a call of handlePayloadRequest: the request is sent, and outcome is what
\* handleDslRequest will give
handlePayloadRequest(outcome) ==
  /\ pc \in {"mounted", "rendered"}
  /\ Len(requests) < MaxRequests
  /\ requests' = Append(requests, [outcome |-> outcome, arrived |-> FALSE])
  /\ lastEvent' = Event("handlePayloadRequest", Len(requests) + 1, <<>>, FALSE)
  /\ UNCHANGED <<mode, colorMap, toggleIdSelected, changedDeps, inherited,
                 payloadData, pc, hierarchicalSpans, callers, data,
                 selectedRange, thrown, parsed, spanFilters>>

\* the .then callback (or the .catch callback) of request i: the responses
\* arrive in any order.  setPayloadData is the setter of the state the
\* panel receives as props.payloadData; a new value makes the effect run.
PayloadResponse(i) ==
  /\ pc \in {"mounted", "rendered"}
  /\ i \in 1..Len(requests)
  /\ ~requests[i].arrived
  /\ requests' = [requests EXCEPT ![i].arrived = TRUE]
  /\ IF requests[i].outcome.rejected
     THEN UNCHANGED <<payloadData, pc, changedDeps>>
     ELSE \E payload \in {PayloadOf(requests[i].outcome.response, mode)} :
            /\ payloadData' = payload
            /\ IF payload # payloadData
               THEN /\ pc' = "mounted"
                    /\ changedDeps' = changedDeps \cup {"payloadData"}
               ELSE UNCHANGED <<pc, changedDeps>>
  /\ lastEvent' = Event("PayloadResponse", i, <<>>, FALSE)
  /\ UNCHANGED <<mode, colorMap, toggleIdSelected, inherited,
                 hierarchicalSpans, callers, data, selectedRange, thrown,
                 parsed, spanFilters>>

\* the owner of the payload state sets it to the empty string
ClearPayload ==
  /\ pc = "rendered"
  /\ ~payloadData.empty
  /\ payloadData' = [empty |-> TRUE, hits |-> <<>>]
  /\ pc' = "mounted"
  /\ changedDeps' = changedDeps \cup {"payloadData"}
  /\ lastEvent' = Event("ClearPayload", <<>>, <<>>, FALSE)
  /\ UNCHANGED <<mode, colorMap, toggleIdSelected, inherited,
                 hierarchicalSpans, callers, data, selectedRange, thrown,
                 parsed, spanFilters, requests>>

\* ------------------------------------------------------------------------
\* Specifications
\* ------------------------------------------------------------------------

\* the panel is constructed with one of the payloads explored with the viewport
InitViewport ==
  /\ mode \in Modes
  /\ payloadData \in ViewportPayloads(mode)
  /\ pc = "mounted"
  /\ spanFilters = <<>>
  /\ InitPanel

\* the panel is constructed without payload and with stored filters
InitFilters ==
  /\ mode \in Modes
  /\ payloadData = [empty |-> TRUE, hits |-> <<>>]
  /\ pc = "mounted"
  /\ spanFilters \in UniqueFilterLists
  /\ InitPanel

\* the panel is constructed without payload and without filters, before
\* the first call of handlePayloadRequest
InitRequests ==
  /\ mode \in Modes
  /\ payloadData = [empty |-> TRUE, hits |-> <<>>]
  /\ pc = "mounted"
  /\ spanFilters = <<>>
  /\ InitPanel

\* the effect, and a new colorMap object with the colours of the one before
Next == PayloadEffect \/ ColorMapChange(colorMap)

NextParse == ParseSpan

Spec == Init /\ [][Next]_vars

SpecLayout == InitLayout /\ [][Next]_vars

SpecParse == InitParse /\ [][NextParse]_vars

NextViewport ==
  \/ PayloadEffect
  \/ \E event \in RelayoutEvents : onRelayoutHandler(event)
  \/ ResetZoom
  \/ \E i \in DOMAIN ToggleIds : setToggleIdSelected(ToggleIds[i])
  \/ \E colors \in ColorMaps : ColorMapChange(colors)

SpecViewport == InitViewport /\ [][NextViewport]_vars

NextFilters ==
  \/ PayloadEffect
  \/ \E field \in FilterFields, value \in FilterValues : addSpanFilter(field, value)
  \/ \E field \in FilterFields : removeSpanFilter(field)

SpecFilters == InitFilters /\ [][NextFilters]_vars

NextRequests ==
  \/ \E outcome \in Outcomes(mode) : handlePayloadRequest(outcome)
  \/ \E i \in 1..MaxRequests : PayloadResponse(i)
  \/ ClearPayload
  \/ (\E colors \in ColorMaps : ColorMapChange(colors))
  \/ PayloadEffect
  \/ \E event \in ZoomEvents : onRelayoutHandler(event)
  \/ ResetZoom
  \/ addSpanFilter("serviceName", "a")
  \/ removeSpanFilter("serviceName")

SpecRequests == InitRequests /\ [][NextRequests]_vars

\* ------------------------------------------------------------------------
\* Properties
\* ------------------------------------------------------------------------

Hits == payloadData.hits

HitIds == {SpanKey(Hits[i], mode) : i \in 1..Len(Hits)}

Bars == data.gantt

SpanMap == hierarchicalSpans.spanMap

RootSpans == hierarchicalSpans.rootSpans

\* the effect has run to its end on a payload that is not the empty string
Laid == pc = "rendered" /\ ~payloadData.empty

\* hitsToHierarchicalSpans threw: the effect has no forest, while a walk
\* that throws has started from a root
BuildThrew == pc = "crashed" /\ RootSpans = <<>>

\* the effect has built the forest of a payload (and then laid it out or thrown)
Built == pc \in {"rendered", "crashed"} /\ ~payloadData.empty /\ ~BuildThrew

\* number of occurrences of x in the sequence xs
Count(xs, x) == Cardinality({i \in 1..Len(xs) : xs[i] = x})

BarCount(id) == Cardinality({i \in 1..Len(Bars) : Bars[i].spanId = id})

\* number of children arrays entries that refer to the node id
ChildCount(id) ==
  LET keys == DOMAIN SpanMap
      RECURSIVE Sum(_)
      Sum(ks) == IF ks = {} THEN 0
                 ELSE LET k == CHOOSE k \in ks : TRUE
                      IN  Count(SpanMap[k].children, id) + Sum(ks \ {k})
  IN  Sum(keys)

\* the nodes whose children array refers to the node id
ParentsOf(id) == {k \in DOMAIN SpanMap : Count(SpanMap[k].children, id) > 0}

References(hit) ==
  IF Has(hit.source, "references") THEN hit.source.references ELSE <<>>

\* every reference (jaeger) or parentSpanId (data-prepper) names a span of
\* the payload
AllReferencesResolve ==
  \A i \in 1..Len(Hits) :
    IF mode = "jaeger"
    THEN \A r \in 1..Len(References(Hits[i])) :
           References(Hits[i])[r].spanID \in HitIds
    ELSE Has(Hits[i].source, "parentSpanId")
           => Hits[i].source.parentSpanId \in HitIds

\* the span ids named by the references (the parentSpanId) of the hit of id
ReferencedBy(id) ==
  UNION {IF mode = "jaeger"
         THEN {References(Hits[i])[r].spanID : r \in 1..Len(References(Hits[i]))}
         ELSE (IF Has(Hits[i].source, "parentSpanId")
               THEN {Hits[i].source.parentSpanId} ELSE {}) :
         i \in {j \in 1..Len(Hits) : SpanKey(Hits[j], mode) = id}}

\* the span ids reached from the set ids by following references k times or less
RECURSIVE ReachedFrom(_, _)
ReachedFrom(ids, k) ==
  IF k = 0 THEN ids
  ELSE ReachedFrom(ids \cup UNION {ReferencedBy(id) : id \in ids \cap HitIds}, k - 1)

\* no span refers to itself, directly or through other spans
ReferencesAcyclic ==
  \A id \in HitIds : id \notin ReachedFrom(ReferencedBy(id), Len(Hits))

\* start time of the span of bar i
BarStart(i) == SpanMap[Bars[i].spanId].startTimeInNanos

\* C1 (as claimed): when every parent/reference id resolves to a span of the
\* payload, building the hierarchy and laying it out yields a bar sequence
\* in which every span id of the payload occurs exactly once.  Stated for
\* the payloads whose references form no cycle, which the claim includes.
C1_EverySpanOnce ==
  (pc # "mounted" /\ ~payloadData.empty /\ AllReferencesResolve /\ ReferencesAcyclic)
    => /\ pc = "rendered"
       /\ \A id \in HitIds : BarCount(id) = 1

\* C2 (as claimed): a span node that is placed has a single position: it is
\* in the root list once or in the children of one node once, never both a
\* root and a child, never a child of two parents; a jaeger span with several
\* resolvable CHILD_OF references is attached to the first resolved target only.
\* Stated for the payloads whose references form no cycle, which the claim
\* includes.
C2_SinglePosition ==
  (Built /\ ReferencesAcyclic) =>
    \A id \in DOMAIN SpanMap :
      /\ Count(RootSpans, id) + ChildCount(id) <= 1
      /\ \A i \in 1..Len(Hits) :
           (mode = "jaeger" /\ SpanKey(Hits[i], mode) = id) =>
             LET refs == References(Hits[i])
                 resolved == {r \in 1..Len(refs) :
                                /\ refs[r].refType = "CHILD_OF"
                                /\ refs[r].spanID \in DOMAIN SpanMap}
             IN  resolved # {} =>
                   ParentsOf(id) = {refs[CHOOSE r \in resolved :
                                           \A q \in resolved : r <= q].spanID}

\* two bars pushed by invocations of processSpan made by the same forEach:
\* two roots, or two children of the same invocation
Siblings(i, j) == i # j /\ callers[i] = callers[j]

\* C3 (as claimed): a parent's bar precedes the bars of its descendants, and
\* for two siblings A, B: A.startTimeInNanos <= B.startTimeInNanos if and
\* only if A's bar precedes B's bar, also when the start times are equal.
C3_OrderIffStart ==
  Laid =>
    /\ \A j \in 1..Len(Bars) : callers[j] < j
    /\ \A i, j \in 1..Len(Bars) :
         Siblings(i, j) => (BarStart(i) <= BarStart(j) <=> i < j)

\* C3 (amended): a parent's bar precedes the bars of its descendants, and a
\* sibling whose bar comes first does not start later; siblings with equal
\* start times are both "<=" each other and keep the order of the list
\* that was sorted.
C3_OrderByStart ==
  Laid =>
    /\ \A j \in 1..Len(Bars) : callers[j] < j
    /\ \A i, j \in 1..Len(Bars) :
         (Siblings(i, j) /\ i < j) => BarStart(i) <= BarStart(j)
    /\ \A i, j \in 1..Len(Bars) :
         (Siblings(i, j) /\ BarStart(i) < BarStart(j)) => i < j

\* witness of C3: a laid out parent with two children that start at the
\* same time, after a root that starts earlier than its sibling root or a
\* child that starts earlier than its sibling
C3_Witness ==
  /\ Laid
  /\ \E i, j \in 1..Len(Bars) :
       Siblings(i, j) /\ i < j /\ callers[i] > 0 /\ BarStart(i) = BarStart(j)

\* the earliest start time of the spans of the payload, in milliseconds
GlobalMinStartMs ==
  MathMin([i \in 1..Len(Hits) |-> nanoToMilliSec(getStartTimeInNanos(Hits[i], mode))])

\* C4 (as claimed): the offset of every bar is the start time of its span
\* in milliseconds minus the earliest start time of all spans of the
\* payload, and no bar has a negative offset.  Stated for the payloads
\* every span of which has exactly one bar, which the claim includes.
C4_OffsetFromGlobalMin ==
  (Laid /\ \A id \in HitIds : BarCount(id) = 1) =>
    \A i \in 1..Len(Bars) :
      /\ Bars[i].base = nanoToMilliSec(BarStart(i)) - GlobalMinStartMs
      /\ Bars[i].base >= 0

\* the right end of bar i
BarEnd(i) == Plus(Bars[i].base, Bars[i].x[1])

\* C5: the maxX stored by the effect is the largest right end (offset +
\* duration) of the bars, and a payload without hits gives no bars, no
\* annotations and maxX = 0.
C5_MaxXIsLargestEnd ==
  Laid =>
    /\ Bars # <<>> =>
         /\ \E i \in 1..Len(Bars) : data.ganttMax = BarEnd(i)
         /\ \A i \in 1..Len(Bars) : data.ganttMax >= BarEnd(i)
    /\ Hits = <<>> =>
         data = [gantt |-> <<>>, ganttAnnotations |-> <<>>, ganttMax |-> 0]

\* witness of C5: three bars of which the second ends last
C5_Witness ==
  /\ Laid
  /\ Len(Bars) = 3
  /\ BarEnd(2) > BarEnd(1)
  /\ BarEnd(2) > BarEnd(3)
  /\ data.ganttMax = BarEnd(2)

\* C6 (as claimed): for every payload the hierarchy is built and walked to
\* the end: the walk does not re-enter a node without end.
C6_WalkTerminates ==
  (pc # "mounted") => (pc = "rendered" /\ thrown = "none")

\* the hit of span id
HitOf(id) == Hits[CHOOSE i \in 1..Len(Hits) : SpanKey(Hits[i], mode) = id]

\* C7 (as claimed): in data-prepper mode a span whose parentSpanId names a
\* span of the payload is once in that span's children, in no other children
\* and not a root; every other span, also one whose parentSpanId names no
\* span of the payload, is once in the root list and in no children.
C7_DataPrepperPlacement ==
  (Built /\ mode = "data_prepper") =>
    \A id \in HitIds :
      LET parent == Get(HitOf(id).source, "parentSpanId")
      IN  IF Truthy(parent) /\ parent \in HitIds
          THEN /\ Count(SpanMap[parent].children, id) = 1
               /\ ChildCount(id) = 1
               /\ Count(RootSpans, id) = 0
          ELSE /\ Count(RootSpans, id) = 1
               /\ ChildCount(id) = 0

\* the payload of the three span scenario: R, C1 CHILD_OF R, C2 without references
ThreeSpanScenario == mode = "jaeger" /\ Hits = ThreeSpanPayload

\* C8: in jaeger mode a span is in the root list exactly when it has no
\* references or a FOLLOWS_FROM reference, and then once; in the three span
\* scenario the roots are R and C2 and the bars are R, C1, C2.
C8_JaegerRoots ==
  (Built /\ mode = "jaeger") =>
    /\ \A id \in HitIds :
         LET refs == References(HitOf(id))
             follows == \E r \in 1..Len(refs) : refs[r].refType = "FOLLOWS_FROM"
         IN  Count(RootSpans, id) = IF refs = <<>> \/ follows THEN 1 ELSE 0
    /\ ThreeSpanScenario =>
         /\ pc = "rendered"
         /\ {RootSpans[i] : i \in 1..Len(RootSpans)} = {"s1", "s3"}
         /\ [i \in 1..Len(Bars) |-> Bars[i].spanId] = <<"s1", "s2", "s3">>

\* witness of C8: the three span scenario, laid out
C8_Witness == Laid /\ ThreeSpanScenario /\ Len(Bars) = 3

\* C9 (as claimed): parseSpanHitData returns a result for every hit,
\* whichever of the properties it reads are missing.
C9_ParseNeverFails ==
  pc = "parsed" => parsed.threw = "none"

\* the duration of the span of bar i in milliseconds, not rounded
UnroundedDurationMs(i) ==
  LET source == SpanMap[Bars[i].spanId].hit.source
  IN  IF mode = "jaeger" THEN microToMilliSec(source.duration)
                         ELSE nanoToMilliSec(source.durationInNanos)

\* C10 (as claimed): the duration stored in each bar is the unrounded
\* duration of the span, and maxX is computed from unrounded durations.
C10_BarsUnrounded ==
  Laid =>
    /\ \A i \in 1..Len(Bars) : Bars[i].x[1] = UnroundedDurationMs(i)
    /\ Bars # <<>> =>
         \E i \in 1..Len(Bars) : data.ganttMax = Bars[i].base + UnroundedDurationMs(i)

\* C10 (amended): the duration stored in each bar, and added to the offset
\* for maxX, is the duration of the span rounded to two decimals; the label
\* shows that rounded value with two decimals.
C10_BarsRounded ==
  Laid =>
    /\ \A i \in 1..Len(Bars) :
         /\ Bars[i].x[1] = round2(UnroundedDurationMs(i))
         /\ data.ganttAnnotations[i].text[4] * (MsUnit \div 100) = Bars[i].x[1]
    /\ Bars # <<>> =>
         /\ \E i \in 1..Len(Bars) :
              data.ganttMax = Bars[i].base + round2(UnroundedDurationMs(i))
         /\ \A i \in 1..Len(Bars) :
              data.ganttMax >= Bars[i].base + round2(UnroundedDurationMs(i))

\* witness of C10: one bar of a span whose duration has more than two
\* decimals, which gives maxX
C10_Witness ==
  /\ Laid
  /\ Len(Bars) = 1
  /\ UnroundedDurationMs(1) # round2(UnroundedDurationMs(1))
  /\ data.ganttMax = round2(UnroundedDurationMs(1))

\* 1.1 * x of a number x that may be NaN
OnePointOneTimes(x) == IF x = NaN THEN NaN ELSE (x * 11) \div 10

\* C11: from every viewport reached by relayout events (also a viewport
\* outside [0, full] or with its end before its start) the reset sets the
\* viewport to [0, 1.1 * ganttMax] of the data that is loaded; the range a
\* further reset would set is the range the viewport has, so a second reset
\* changes nothing.
C11_ResetToFullRange ==
  lastEvent.op = "ResetZoom" =>
    /\ selectedRange = <<0, OnePointOneTimes(data.ganttMax)>>
    /\ selectedRange = fullRange

\* witness of C11: a reset of a viewport of a chart of 100 ms that started
\* right of the full range and had its end before its start
C11_Witness ==
  /\ lastEvent.op = "ResetZoom"
  /\ data.ganttMax = 100 * MsUnit
  /\ lastEvent.before[1] > (data.ganttMax * 11) \div 10
  /\ lastEvent.before[2] < lastEvent.before[1]
  /\ selectedRange = <<0, 110 * MsUnit>>

\* the chart shows the payload: every bar is the bar of a hit of the
\* payload, and a payload without hits has the chart without bars
ChartIsOf(chart, payload) ==
  /\ \A i \in 1..Len(chart.gantt) :
       chart.gantt[i].spanId \in {SpanKey(payload.hits[j], mode) :
                                    j \in 1..Len(payload.hits)}
  /\ payload.hits = <<>> =>
       chart = [gantt |-> <<>>, ganttAnnotations |-> <<>>, ganttMax |-> 0]

\* C12 (as claimed): when the payload given to the panel has changed, also
\* to an empty payload, the effect that follows recomputes the chart from
\* the new payload and sets the viewport to [0, 1.1 * ganttMax] of the new
\* chart; a change of the span filters leaves the chart and the viewport
\* as they are.
C12_PayloadChangeRecomputes ==
  [][/\ (pc = "mounted" /\ pc' # "mounted" /\ "payloadData" \in changedDeps) =>
          /\ ChartIsOf(data', payloadData')
          /\ selectedRange' = <<0, OnePointOneTimes(data'.ganttMax)>>
     /\ (spanFilters' # spanFilters) => UNCHANGED <<data, selectedRange>>]_vars

\* C15 (as claimed): when the responses of all calls of handlePayloadRequest
\* have arrived, in whatever order, and the newest call was answered, the
\* payload is the one made of the response of the newest call.
C15_NewerResponseKept ==
  (/\ Len(requests) >= 2
   /\ \A i \in 1..Len(requests) : requests[i].arrived
   /\ ~requests[Len(requests)].outcome.rejected
   /\ lastEvent.op = "PayloadResponse")
    => payloadData = PayloadOf(requests[Len(requests)].outcome.response, mode)

\* the relayout event carries the range [start, end] and nothing else: as
\* xaxis.range, or as selections[0]
Delivers(event, start, end) ==
  \/ event = [range0 |-> <<start>>, range1 |-> <<end>>, x0 |-> Null, x1 |-> Null]
  \/ event = [range0 |-> Null, range1 |-> Null, x0 |-> <<start>>, x1 |-> <<end>>]

\* C13 (as claimed): after onRelayoutHandler has handled a range selection
\* [start, end] with start <= end the viewport is [start, end], whatever
\* the two values are: also when one of them is 0 and when they are outside
\* the full range.
C13_SelectionSetsRange ==
  lastEvent.op = "onRelayoutHandler" =>
    \A start, end \in RangeNumbers \cup SelectionNumbers :
      (start <= end /\ Delivers(lastEvent.arg, start, end))
        => selectedRange = <<start, end>>

\* the values the event carries as start of a range, and as end
StartValues(event) ==
  {v \in RangeNumbers \cup SelectionNumbers : <<v>> \in {event.range0, event.x0}}

EndValues(event) ==
  {v \in RangeNumbers \cup SelectionNumbers : <<v>> \in {event.range1, event.x1}}

\* C17: after onRelayoutHandler has handled an event that lacks a start or
\* lacks an end, in xaxis.range and in selections[0], the viewport is the
\* full range [0, 1.1 * ganttMax] of the data, whatever it was; after any
\* relayout event the viewport is a start and an end that the event
\* carries, or the full range.
C17_RelayoutWithoutRange ==
  lastEvent.op = "onRelayoutHandler" =>
    LET event == lastEvent.arg
        full  == <<0, OnePointOneTimes(data.ganttMax)>>
    IN  /\ (StartValues(event) = {} \/ EndValues(event) = {})
             => selectedRange = full
        /\ \/ selectedRange = full
           \/ /\ selectedRange[1] \in StartValues(event)
              /\ selectedRange[2] \in EndValues(event)

\* witness of C17: a relayout event with a start of 20 ms and no end,
\* handled on a chart of 100 ms
C17_Witness ==
  /\ lastEvent.op = "onRelayoutHandler"
  /\ lastEvent.arg = [range0 |-> <<20 * MsUnit>>, range1 |-> Null,
                      x0 |-> Null, x1 |-> Null]
  /\ data.ganttMax = 100 * MsUnit
  /\ selectedRange = <<0, 110 * MsUnit>>

\* the labels shown: layout.annotations of the render of the state
Displayed == LayoutAnnotations(data, selectedRange)

\* C14: for every viewport and every label: the label of a bar that starts
\* left of the viewport and ends strictly right of its start is shown at
\* the start of the viewport, every other label at the offset of its bar;
\* the labels stored in data keep the offsets of their bars, so after a
\* reset every label with an offset of 0 or more is shown at its offset.
C14_LabelsFollowViewport ==
  pc = "rendered" =>
    /\ Len(Displayed) = Len(Bars)
    /\ \A i \in 1..Len(Bars) :
         LET offset == data.ganttAnnotations[i].x
             visibleStart == selectedRange[1]
         IN  /\ offset = Bars[i].base
             /\ Displayed[i].x = IF /\ offset < visibleStart
                                    /\ BarEnd(i) # NaN
                                    /\ BarEnd(i) > visibleStart
                                 THEN visibleStart
                                 ELSE offset
             /\ Displayed[i].y = data.ganttAnnotations[i].y
             /\ Displayed[i].text = data.ganttAnnotations[i].text
             /\ (lastEvent.op = "ResetZoom" /\ offset >= 0) => Displayed[i].x = offset

\* witness of C14: the viewport starts at 20 ms; of two bars that start at
\* 10 ms the label of the one that ends at 60 ms is shown at 20 ms and the
\* label of the one that ends at 15 ms at 10 ms
C14_Witness ==
  /\ pc = "rendered"
  /\ selectedRange[1] = 20 * MsUnit
  /\ \E i, j \in 1..Len(Bars) :
       /\ Bars[i].base = 10 * MsUnit /\ BarEnd(i) = 60 * MsUnit
       /\ Bars[j].base = 10 * MsUnit /\ BarEnd(j) = 15 * MsUnit
       /\ Displayed[i].x = 20 * MsUnit
       /\ Displayed[j].x = 10 * MsUnit

\* the jaeger spans that have references, all of them CHILD_OF references
\* to span ids that no hit of the payload has
Orphans ==
  {id \in HitIds :
     LET refs == References(HitOf(id))
     IN  /\ refs # <<>>
         /\ \A r \in 1..Len(refs) :
              refs[r].refType = "CHILD_OF" /\ refs[r].spanID \notin HitIds}

\* the hits without the hit of span id
HitsWithout(id) ==
  LET Other(hit) == SpanKey(hit, mode) # id
  IN  SelectSeq(Hits, Other)

\* C16 (as claimed): in jaeger mode a span all of whose references are
\* CHILD_OF references to absent span ids is in no root list, in no children
\* array and has no bar; it raises no error; the root list, the children of
\* every other span and the outcome of the layout (bars, labels, maxX,
\* error) are those of the payload without that span.
C16_OrphanDropped ==
  (pc \in {"rendered", "crashed"} /\ ~payloadData.empty /\ mode = "jaeger"
     /\ lastEvent.op = "effect") =>
    \A x \in Orphans :
      LET without == hitsToHierarchicalSpans(HitsWithout(x), mode, lastEvent.before)
          plot    == createPlotlyData(without, mode, colorMap, StartTimeInMs(without))
      IN  /\ ReferencesAcyclic => (pc = "rendered" /\ thrown = "none")
          /\ ~BuildThrew
          /\ without.threw = "none"
          /\ Count(RootSpans, x) = 0
          /\ ChildCount(x) = 0
          /\ pc = "rendered" => BarCount(x) = 0
          /\ plot.spans.rootSpans = RootSpans
          /\ \A id \in HitIds \ {x} :
               plot.spans.spanMap[id].children = SpanMap[id].children
          /\ plot.threw = thrown
          /\ pc = "rendered" =>
               /\ plot.data = data.gantt
               /\ plot.annotations = data.ganttAnnotations
               /\ plot.maxX = data.ganttMax

\* the fields of the filters of the list
FieldsOf(filters) == {filters[i].field : i \in 1..Len(filters)}

\* the list has at most one filter of a field
OnePerField(filters) ==
  \A i, j \in 1..Len(filters) : filters[i].field = filters[j].field => i = j

\* C18: from a list with at most one filter per field, every list reached
\* by addSpanFilter and removeSpanFilter has at most one filter per field:
\* addSpanFilter of a field of the list puts the new value in the place of
\* the filter of that field, addSpanFilter of another field appends the
\* filter, removeSpanFilter of a field of the list removes the filter of
\* that field and nothing else, and removeSpanFilter of another field
\* leaves the list as it is and does not call setSpanFiltersWithStorage.
C18_OneFilterPerField ==
  /\ OnePerField(spanFilters)
  /\ lastEvent.op = "addSpanFilter" =>
       LET before == lastEvent.before
           filter == lastEvent.arg
       IN  /\ lastEvent.stored
           /\ IF filter.field \in FieldsOf(before)
              THEN /\ Len(spanFilters) = Len(before)
                   /\ \A i \in 1..Len(before) :
                        spanFilters[i] = IF before[i].field = filter.field
                                         THEN filter ELSE before[i]
              ELSE spanFilters = Append(before, filter)
  /\ lastEvent.op = "removeSpanFilter" =>
       LET before == lastEvent.before
           Kept(filter) == filter.field # lastEvent.arg
       IN  IF lastEvent.arg \in FieldsOf(before)
           THEN /\ lastEvent.stored
                /\ Len(spanFilters) = Len(before) - 1
                /\ spanFilters = SelectSeq(before, Kept)
           ELSE /\ ~lastEvent.stored
                /\ spanFilters = before

\* witness of C18: addSpanFilter has replaced the value of the second of
\* three filters
C18_Witness ==
  /\ lastEvent.op = "addSpanFilter"
  /\ Len(lastEvent.before) = 3
  /\ lastEvent.before[2].field = lastEvent.arg.field
  /\ lastEvent.before[2].value # lastEvent.arg.value
  /\ spanFilters = [lastEvent.before EXCEPT ![2] = lastEvent.arg]

====
